---- MODULE Spec2Model ----
(***************************************************************************)
(* The cross-filter callbacks of the proximity dashboard (src/app.py):     *)
(* the amenity dropdown and the brush on the ECDF chart drive two dash     *)
(* callbacks, update_map and update_production, which rebuild the map      *)
(* figure and the ECDF figure.                                             *)
(*                                                                         *)
(* Conventions of the model:                                               *)
(*  - Python's None for an optional value (selectedData, x_range) is the   *)
(*    empty sequence <<>>, a present value d is <<d>> (selectedData) or    *)
(*    the list itself (x_range = <<lo, hi>>); both None and [] are falsy;  *)
(*  - a prop id "component.property" is the sequence of its components,    *)
(*    which is what .split(".") returns;                                   *)
(*  - pandas' NaN (a missing cell of the csv) is the value NaN below: no   *)
(*    comparison with it is true;                                          *)
(*  - distances are whole kilometres (whole thousands of metres in the     *)
(*    csv), positions of a data frame count from 1.                        *)
(***************************************************************************)
EXTENDS Integers, Sequences, FiniteSets, TLC

VARIABLES
    df_dist,        \* the distance table, loaded once (app.py:38-39)
    amenity_select, \* property "value" of the dropdown "amenity-select"
    selectedData,   \* property "selectedData" of the graph "ecdf"
    event,          \* the prop ids changed by the latest UI event, in order
    map_figure,     \* property "figure" of the graph "map"
    ecdf_figure,    \* property "figure" of the graph "ecdf"
    x_range,        \* update_map's x_range in the call that built map_figure
    raised          \* the callbacks that raised KeyError on the latest event

vars == <<df_dist, amenity_select, selectedData, event, map_figure,
          ecdf_figure, x_range, raised>>

\* ------------------------------------------------------------------ bounds

\* Number of blocks (rows of distance_to_nearest.csv).
NumBlocks == 2

\* Brushed bounds range over 0..MaxBrush kilometres.
MaxBrush == 1

\* --------------------------------------------------------------- constants

Range(s) == {s[i] : i \in DOMAIN s}

amenities == <<"hospital", "supermarket", "school", "library">>

amenity_names ==
    [hospital |-> "Hospitals", school |-> "Schools",
     supermarket |-> "Supermarkets", library |-> "Libraries"]

colors == <<"#EA5138", "#E4AE36", "#1F386B", "#507332">>

colormap == [a \in Range(amenities) |->
                colors[CHOOSE ind \in DOMAIN amenities : amenities[ind] = a]]

\* A missing cell of a csv file, as pandas reads it.
NaN == -1

\* The value of a dropdown the user has cleared.
NoAmenity == "None"

None == <<>>

Truthy(v) == v # None

\* ------------------------------------------------------------------- data

GeoidPool == <<"245100101001", "245100101002", "245100102001", "245100102002">>

\* Rows of distance_to_nearest.csv, in metres.
CsvRows ==
    << [hospital |-> 1000, supermarket |-> 0,    school |-> 2000, library |-> 1000],
       [hospital |-> 2000, supermarket |-> 2000, school |-> 0,    library |-> NaN],
       [hospital |-> NaN,  supermarket |-> 1000, school |-> 1000, library |-> 0] >>

\* The csv file with NumBlocks rows that starts at row k of CsvRows.
CsvFile(k) == [i \in 1..NumBlocks |-> CsvRows[((i + k - 2) % Len(CsvRows)) + 1]]

ToKm(v) == IF v = NaN THEN NaN ELSE v \div 1000

\* pd.read_csv(...) followed by df_dist[amenities] = df_dist[amenities]/1000
read_dist(rows) ==
    [i \in DOMAIN rows |->
        [geoid10     |-> GeoidPool[i],
         hospital    |-> ToKm(rows[i].hospital),
         supermarket |-> ToKm(rows[i].supermarket),
         school      |-> ToKm(rows[i].school),
         library     |-> ToKm(rows[i].library)]]

destinations ==
    << [dest_type |-> "hospital",    lat |-> 3929, lon |-> -7661],
       [dest_type |-> "school",      lat |-> 3930, lon |-> -7662],
       [dest_type |-> "hospital",    lat |-> 3931, lon |-> -7660],
       [dest_type |-> "supermarket", lat |-> 3928, lon |-> -7663],
       [dest_type |-> "library",     lat |-> 3927, lon |-> -7659] >>

df_ecdf ==
    << [amenity |-> "hospital",    distance |-> 0, perc |-> 10],
       [amenity |-> "hospital",    distance |-> 1, perc |-> 60],
       [amenity |-> "hospital",    distance |-> 2, perc |-> 100],
       [amenity |-> "supermarket", distance |-> 0, perc |-> 40],
       [amenity |-> "supermarket", distance |-> 2, perc |-> 100],
       [amenity |-> "school",      distance |-> 1, perc |-> 50],
       [amenity |-> "school",      distance |-> 2, perc |-> 100],
       [amenity |-> "library",     distance |-> 0, perc |-> 30],
       [amenity |-> "library",     distance |-> 1, perc |-> 100] >>

Column(df, col) == [i \in DOMAIN df |-> df[i][col]]

Index(df) == [i \in 1..Len(df) |-> i]

\* df[df.<col> == value]
WhereEq(df, col, value) ==
    LET Test(r) == r[col] = value IN SelectSeq(df, Test)

\* ---------------------------------------------------------------- figures

\* The curve cut down to the range in effect on the map
generate_ecdf_plot_brushed(amenity_select_) ==
    LET InRange(r) == r.amenity = amenity_select_
                      /\ (Truthy(x_range) => x_range[1] <= r.distance /\ r.distance <= x_range[2])
        dff == SelectSeq(df_ecdf, InRange)
    IN  [title |-> amenity_select_,
         x     |-> Column(dff, "distance"),
         y     |-> Column(dff, "perc"),
         text  |-> Column(dff, "amenity"),
         color |-> colormap[amenity_select_]]

generate_ecdf_plot(amenity_select_) ==
    LET dff == WhereEq(df_ecdf, "amenity", amenity_select_)
    IN  [title |-> amenity_select_,
         x     |-> Column(dff, "distance"),
         y     |-> Column(dff, "perc"),
         text  |-> Column(dff, "amenity"),
         color |-> colormap[amenity_select_]]

\* generate_ecdf_plot raises KeyError at colormap[amenity]
generate_ecdf_plot_raises(amenity_select_) ==
    amenity_select_ \notin DOMAIN colormap

\* between with inclusive=False: the boundaries are left out
between_exclusive(v, left, right) == v # NaN /\ left < v /\ v < right

\* Series.between(left, right, inclusive=True) on one value
between(v, left, right) == v # NaN /\ left <= v /\ v <= right

\* No range selects no point instead of every point
generate_map_no_fallback(amenity, dff_dest, x_range_) ==
    LET InRange(i) == between(df_dist[i][amenity], x_range_[1], x_range_[2])
        idx == SelectSeq(Index(df_dist), InRange)
    IN  [locations      |-> Column(df_dist, "geoid10"),
         z              |-> Column(df_dist, amenity),
         selectedpoints |-> IF Truthy(x_range_) THEN idx ELSE <<>>,
         lat            |-> Column(dff_dest, "lat"),
         lon            |-> Column(dff_dest, "lon"),
         color          |-> colormap[amenity],
         name           |-> amenity_names[amenity]]

\* The choropleth drawn from the rows in range only
generate_map_filtered(amenity, dff_dest, x_range_) ==
    LET InRange(i) == between(df_dist[i][amenity], x_range_[1], x_range_[2])
        idx  == SelectSeq(Index(df_dist), InRange)
        rows == IF Truthy(x_range_) THEN [k \in DOMAIN idx |-> df_dist[idx[k]]] ELSE df_dist
    IN  [locations      |-> Column(rows, "geoid10"),
         z              |-> Column(rows, amenity),
         selectedpoints |-> Index(rows),
         lat            |-> Column(dff_dest, "lat"),
         lon            |-> Column(dff_dest, "lon"),
         color          |-> colormap[amenity],
         name           |-> amenity_names[amenity]]

generate_map(amenity, dff_dest, x_range_) ==
    LET InRange(i) == between(df_dist[i][amenity], x_range_[1], x_range_[2])
        idx == SelectSeq(Index(df_dist), InRange)
    IN  [locations      |-> Column(df_dist, "geoid10"),
         z              |-> Column(df_dist, amenity),
         selectedpoints |-> IF Truthy(x_range_) THEN idx ELSE Index(df_dist),
         lat            |-> Column(dff_dest, "lat"),
         lon            |-> Column(dff_dest, "lon"),
         color          |-> colormap[amenity],
         name           |-> amenity_names[amenity]]

\* generate_map raises KeyError at df_dist[amenity] (no such column) or at
\* colormap[amenity] (no such key)
generate_map_raises(amenity) ==
    amenity \notin Range(amenities) \/ amenity \notin DOMAIN colormap

\* -------------------------------------------------------------- callbacks

AmenityValueProp == <<"amenity-select", "value">>
SelectedDataProp == <<"ecdf", "selectedData">>
RelayoutDataProp == <<"ecdf", "relayoutData">>

\* The Input list with the commented-out Input("ecdf", "relayoutData") put back
update_map_inputs_with_relayout ==
    <<AmenityValueProp, RelayoutDataProp, SelectedDataProp>>

\* The Input list of each callback.
update_map_inputs == <<AmenityValueProp, SelectedDataProp>>

update_production_inputs == <<AmenityValueProp>>

\* dash.callback_context.triggered: the changed props among a callback's inputs
triggered(ev, inputs) ==
    LET Test(p) == p \in Range(inputs) IN SelectSeq(ev, Test)

\* The brushed range taken whatever triggered the callback
update_map_x_range_any_trigger(ecdf_selectedData, trig) ==
    IF Truthy(ecdf_selectedData) /\ "range" \in DOMAIN ecdf_selectedData[1]
    THEN ecdf_selectedData[1].range.x
    ELSE None

\* update_map's x_range at the call of generate_map
update_map_x_range(ecdf_selectedData, trig) ==
    LET splitted  == trig[1]
        prop_id   == IF Truthy(trig) THEN splitted[1] ELSE ""
        prop_type == IF Truthy(trig) THEN splitted[2] ELSE ""
    IN  IF prop_id = "ecdf" /\ prop_type = "selectedData"
        THEN IF Truthy(ecdf_selectedData)
             THEN ecdf_selectedData[1].range.x
             ELSE None
        ELSE None

\* ecdf_selectedData['range'] raises KeyError when the selection has no range
update_map_raises(amenity_select_, ecdf_selectedData, trig) ==
    \/ /\ Truthy(trig)
       /\ trig[1] = SelectedDataProp
       /\ Truthy(ecdf_selectedData)
       /\ "range" \notin DOMAIN ecdf_selectedData[1]
    \/ generate_map_raises(amenity_select_)

update_map(amenity_select_, ecdf_selectedData, trig) ==
    LET dff_dest == WhereEq(destinations, "dest_type", amenity_select_)
        xr       == update_map_x_range(ecdf_selectedData, trig)
    IN  generate_map(amenity_select_, dff_dest, xr)

update_production(amenity_select_) == generate_ecdf_plot(amenity_select_)

\* ------------------------------------------------------------ environment

AmenityValues == Range(amenities) \cup {NoAmenity}

BrushValues == 0..MaxBrush

\* What the graph reports as selectedData: nothing, a box selection with
\* its x range, or a lasso selection (which has no range).
SelectedDataValues ==
    {None}
    \cup {<<[range |-> [x |-> <<lo, hi>>]]>> : lo \in BrushValues, hi \in BrushValues}
    \cup {<<[lassoPoints |-> [x |-> <<>>]]>>}

Stores == {read_dist(CsvFile(k)) : k \in DOMAIN CsvRows}

\* One UI event: the props it changed are set, then every callback with a
\* changed input runs to completion; a callback that raises leaves its
\* output as it was.
Dispatch(ev, new_amenity, new_selectedData) ==
    LET trig_map   == triggered(ev, update_map_inputs)
        trig_prod  == triggered(ev, update_production_inputs)
        map_runs   == Truthy(trig_map)
        prod_runs  == Truthy(trig_prod)
        map_fails  == map_runs /\ update_map_raises(new_amenity, new_selectedData, trig_map)
        prod_fails == prod_runs /\ generate_ecdf_plot_raises(new_amenity)
    IN  /\ amenity_select' = new_amenity
        /\ selectedData' = new_selectedData
        /\ event' = ev
        /\ IF map_runs /\ ~map_fails
           THEN /\ map_figure' = update_map(new_amenity, new_selectedData, trig_map)
                /\ x_range' = update_map_x_range(new_selectedData, trig_map)
           ELSE UNCHANGED <<map_figure, x_range>>
        /\ IF prod_runs /\ ~prod_fails
           THEN ecdf_figure' = update_production(new_amenity)
           ELSE UNCHANGED ecdf_figure
        /\ raised' = (IF map_fails THEN {"update_map"} ELSE {})
                     \cup (IF prod_fails THEN {"update_production"} ELSE {})
        /\ UNCHANGED df_dist

\* Page load: the layout's defaults, and both callbacks called once with
\* nothing triggered.
Init ==
    /\ df_dist \in Stores
    /\ amenity_select = amenities[1]
    /\ selectedData = None
    /\ event = <<>>
    /\ map_figure = update_map(amenities[1], None, <<>>)
    /\ x_range = update_map_x_range(None, <<>>)
    /\ ecdf_figure = update_production(amenities[1])
    /\ raised = {}

AmenityChanged ==
    \E v \in AmenityValues \ {amenity_select} :
        Dispatch(<<AmenityValueProp>>, v, selectedData)

RangeBrushed ==
    \E sd \in SelectedDataValues \ {selectedData} :
        Dispatch(<<SelectedDataProp>>, amenity_select, sd)

Relayout ==
    Dispatch(<<RelayoutDataProp>>, amenity_select, selectedData)

Batch ==
    \E v \in AmenityValues \ {amenity_select} :
    \E sd \in SelectedDataValues \ {selectedData} :
    \E ev \in {<<AmenityValueProp, SelectedDataProp>>,
               <<SelectedDataProp, AmenityValueProp>>} :
        Dispatch(ev, v, sd)

Next == AmenityChanged \/ RangeBrushed \/ Relayout \/ Batch

Spec == Init /\ [][Next]_vars

\* ------------------------------------------------------------- properties

\* The blocks of the store, and the distance the store holds for one.
AllBlocks == {df_dist[i].geoid10 : i \in DOMAIN df_dist}

Distance(g, c) == df_dist[CHOOSE i \in DOMAIN df_dist : df_dist[i].geoid10 = g][c]

\* The blocks a map figure highlights: the locations its selectedpoints name.
Highlighted(fig) == {fig.locations[i] : i \in Range(fig.selectedpoints)}

\* The category a map figure was built for, read off its marker trace.
AmenityOf(fig) == CHOOSE a \in Range(amenities) : amenity_names[a] = fig.name

ValidAmenity(a) == a \in Range(amenities)

HasRange(sd) == Truthy(sd) /\ "range" \in DOMAIN sd[1]

\* The (distance, percentile) samples the store holds for a category, in order.
EcdfSamples(c) ==
    LET Test(r) == r.amenity = c
        rows == SelectSeq(df_ecdf, Test)
    IN  [i \in DOMAIN rows |-> <<rows[i].distance, rows[i].perc>>]

Curve(fig) == [i \in DOMAIN fig.x |-> <<fig.x[i], fig.y[i]>>]

\* C1: with a bounded range [lo, hi], lo <= hi, in effect, the map highlights
\* exactly the blocks whose distance for the map's category lies in [lo, hi],
\* both ends included; when no block does, it highlights none.
C1_RangeFilterInclusive ==
    (Truthy(x_range) /\ x_range[1] <= x_range[2]) =>
        Highlighted(map_figure) =
            {g \in AllBlocks :
                LET v == Distance(g, AmenityOf(map_figure))
                IN  v # NaN /\ x_range[1] <= v /\ v <= x_range[2]}

\* C1 witness: a degenerate range lo = hi that highlights a block lying on it
\* and leaves another block out.
C1_Witness ==
    /\ Truthy(x_range)
    /\ x_range[1] = x_range[2]
    /\ Highlighted(map_figure) # {}
    /\ Highlighted(map_figure) # AllBlocks

\* C2: with no range in effect (never brushed, or the brush cleared), the map
\* highlights every block of the store.
C2_UnboundedHighlightsAll ==
    (x_range = None) =>
        /\ Highlighted(map_figure) = AllBlocks
        /\ map_figure.selectedpoints = Index(df_dist)

\* C2 witness: the latest event cleared a brush, and the map was rebuilt.
C2_Witness ==
    /\ event = <<SelectedDataProp>>
    /\ selectedData = None
    /\ x_range = None
    /\ raised = {}

\* C3: an amenity change to a category c2 that comes with no new brush leaves
\* no range in effect: the map is rebuilt for c2 and highlights every block,
\* whatever range was brushed before.
C3_AmenityChangeResetsRange ==
    [][ ( /\ amenity_select' # amenity_select
          /\ ValidAmenity(amenity_select')
          /\ selectedData' = selectedData )
        => ( /\ x_range' = None
             /\ AmenityOf(map_figure') = amenity_select'
             /\ Highlighted(map_figure') = AllBlocks' ) ]_vars

\* C3 witness: after an amenity change, the chart still holds an earlier brush
\* that would leave a block of the new category out, and the map highlights
\* every block.
C3_Witness ==
    /\ event = <<AmenityValueProp>>
    /\ ValidAmenity(amenity_select)
    /\ HasRange(selectedData)
    /\ \E g \in AllBlocks :
          LET v == Distance(g, amenity_select)
              r == selectedData[1].range.x
          IN  ~(v # NaN /\ r[1] <= v /\ v <= r[2])
    /\ x_range = None
    /\ Highlighted(map_figure) = AllBlocks

\* C4 as claimed: an event whose triggering source is not the chart's
\* selectedData leaves the range in effect and the highlighted set as they were.
C4_NonBrushLeavesRange ==
    [][ (event' # <<>> /\ Head(event') # SelectedDataProp)
        => ( /\ x_range' = x_range
             /\ Highlighted(map_figure') = Highlighted(map_figure) ) ]_vars

\* C4 as amended: an event that changes neither the chart's selectedData nor
\* the amenity selector leaves the range in effect and the map as they were.
C4_OtherSourceLeavesRange ==
    [][ ( /\ SelectedDataProp \notin Range(event')
          /\ AmenityValueProp \notin Range(event') )
        => ( /\ x_range' = x_range
             /\ map_figure' = map_figure ) ]_vars

\* C4 witness: a relayout of the chart was the latest event, and a brushed
\* range that leaves a block out is still in effect.
C4_Witness ==
    /\ event = <<RelayoutDataProp>>
    /\ Truthy(x_range)
    /\ Highlighted(map_figure) # AllBlocks

\* The ECDF figure of a valid selected category is the store's samples of it.
C5_CurveOfCategory ==
    ValidAmenity(amenity_select) => Curve(ecdf_figure) = EcdfSamples(amenity_select)

\* An event that does not change the amenity leaves the ECDF figure as it was.
C5_BrushKeepsCurve ==
    (AmenityValueProp \notin Range(event')) => ecdf_figure' = ecdf_figure

\* C5: the ECDF figure depends on the selected category alone: it is the
\* category's samples whatever range is in effect, and a brush never changes it.
C5_EcdfIndependentOfRange ==
    /\ C5_CurveOfCategory
    /\ [][C5_BrushKeepsCurve /\ C5_CurveOfCategory']_vars

\* C5 witness: a brush was the latest event, its range is in effect and cuts
\* a sample of the category off, and the figure still shows every sample.
C5_Witness ==
    /\ event = <<SelectedDataProp>>
    /\ ValidAmenity(amenity_select)
    /\ Truthy(x_range)
    /\ raised = {}
    /\ \E i \in DOMAIN ecdf_figure.x :
          ~(x_range[1] <= ecdf_figure.x[i] /\ ecdf_figure.x[i] <= x_range[2])
    /\ Curve(ecdf_figure) = EcdfSamples(amenity_select)

\* C6: every map figure lists every block of the store with its distance for
\* the figure's category, whatever range is in effect.
C6_PerBlockDistanceComplete ==
    /\ map_figure.locations = Column(df_dist, "geoid10")
    /\ DOMAIN map_figure.z = DOMAIN df_dist
    /\ \A i \in DOMAIN df_dist :
          map_figure.z[i] = df_dist[i][AmenityOf(map_figure)]

\* C6 witness: a range that selects no block is in effect.
C6_Witness ==
    /\ Truthy(x_range)
    /\ map_figure.selectedpoints = <<>>
    /\ Len(map_figure.z) = NumBlocks

\* C7: an amenity change naming a category outside the enumerated set leaves
\* the selected category, the range in effect and both figures as they were.
C7_InvalidCategoryRejected ==
    [][ ( /\ AmenityValueProp \in Range(event')
          /\ ~ValidAmenity(amenity_select') )
        => ( /\ amenity_select' = amenity_select
             /\ x_range' = x_range
             /\ map_figure' = map_figure
             /\ ecdf_figure' = ecdf_figure ) ]_vars

\* C8: a brush carrying an interval with lo > hi leaves the range in effect
\* and the highlighted set as they were.
C8_InvalidRangeRejected ==
    [][ ( /\ event' = <<SelectedDataProp>>
          /\ HasRange(selectedData')
          /\ selectedData'[1].range.x[1] > selectedData'[1].range.x[2] )
        => ( /\ x_range' = x_range
             /\ Highlighted(map_figure') = Highlighted(map_figure) ) ]_vars

\* C9: when a block has no distance for the selected category, a run of
\* update_map fails with an error and produces no map figure.
C9_MissingDistanceIsError ==
    [][ ( /\ triggered(event', update_map_inputs) # <<>>
          /\ ValidAmenity(amenity_select')
          /\ \E i \in DOMAIN df_dist : df_dist[i][amenity_select'] = NaN )
        => ( /\ "update_map" \in raised'
             /\ map_figure' = map_figure ) ]_vars

\* C10: when one event changes both the amenity and the brush, both are acted
\* on in either order: the map is rebuilt for the new category with the newly
\* brushed range in effect.
C10_BatchActsOnEveryChange ==
    [][ ( /\ AmenityValueProp \in Range(event')
          /\ SelectedDataProp \in Range(event')
          /\ ValidAmenity(amenity_select')
          /\ HasRange(selectedData')
          /\ selectedData'[1].range.x[1] <= selectedData'[1].range.x[2] )
        => ( /\ AmenityOf(map_figure') = amenity_select'
             /\ x_range' = selectedData'[1].range.x ) ]_vars

====
